---- MODULE Spec2Model ----
(***************************************************************************)
(* Federated-averaging coordinator (fl_server.py, FederatedServer) and its *)
(* callers: the training workers of fl_client.py (run_client) and any      *)
(* other remote caller of the two registered operations.                   *)
(*                                                                         *)
(* Every call is a sequence of steps of the calling process: the steps of  *)
(* the handler run between the acquisition and the release of the single   *)
(* threading.Lock, one step per statement group, so that the interleavings *)
(* the lock forbids are forbidden by the lock and by nothing else.         *)
(*                                                                         *)
(* Parameters are exact rationals <<numerator, denominator>> in lowest     *)
(* terms (the code uses float tensors; rounding is not modelled).          *)
(***************************************************************************)
(***************************************************************************)
(* Eight specifications share the variables; each leaves the variables of  *)
(* the other parts at their initial values.                                *)
(*   Spec       get_global_weights and submit_update, called concurrently  *)
(*              as the lock allows                                         *)
(*   RpcSpec    the server as start_server builds it: one request handled  *)
(*              at a time, every public method of FederatedServer          *)
(*              registered, aggregate included                             *)
(*   EvalSpec   one run_client alone with its coordinator, long enough for *)
(*              its periodic sampling to come due                          *)
(*   LiveSpec   the same run_client when no call of it is left to raise    *)
(*              out of the loop, every step taken in the end               *)
(*   UeSpec     one UEStateMachine (cellular_sim.py) driven by its owner   *)
(*   UeFairSpec the same machine advanced for ever, its detach branch      *)
(*              taken in the end                                           *)
(*   TraceSpec  generate_dataset (cellular_sim.py)                         *)
(*   OracleSpec check_semantic_validity (evaluate_metrics.py)              *)
(***************************************************************************)
EXTENDS Integers, Sequences, FiniteSets, TLC

\* ---------------------------------------------------------------- constants
\* fl_server.py:14
MIN_CLIENTS == 2
\* fl_client.py:73, generate_dataset(max_events=2000): every transition emits a
\* message, so len(messages) is max_events
LocalSamples == 2000
\* fl_client.py:129, round_num % 5
EvalPeriod == 5

\* ------------------------------------------------------------------- bounds
\* keys of a state_dict
NumKeys == 2
\* submit_update calls issued in one run
MaxSubmits == 4
\* submit_update calls issued in one run of a worker alone with its coordinator
MaxEvalSubmits == 11

\* calls of transition() on one UEStateMachine, and in one bootstrap cycle
MaxHistory == 15
\* bootstrap cycles of check_semantic_validity (range(1000) in the source)
BootCycles == 3
\* len(generated_sequences)
MaxBatch == 2
\* data transfers in a candidate sequence
MaxLoops == 2
\* generate_dataset(max_events)
MaxEvents == 5
\* a remote aggregate request is issued while fewer calls of aggregate() than
\* this have started
MaxAggregates == 1
\* UEStateMachine instances of one generate_dataset call (num_ues)
NumUes == 2

\* the callers of one coordinator: run_client processes (CLIENT_ID) and other
\* remote callers of the registered instance; a deployment runs two of them
Workers == {"client_1", "client_2"}
Raws == {"other_1", "other_2"}
Procs == Workers \cup Raws
Deployments ==
    {{"client_1", "client_2"}, {"client_1", "other_1"}, {"other_1", "other_2"}}
NoProc == "none"
Keys == 1..NumKeys
\* Python's None
None == "None"
\* check_semantic_validity has not returned: no fraction has this value
NoScore == <<0, 0>>
\* the iteration of run_client has not fetched yet
NoRound == 0 - 1
\* ue_id ranges over range(num_ues)
UEs == 0..(NumUes - 1)
\* the timestamp is a float and is written with three decimals: the model keeps
\* one more decimal digit than the log does
TicksPerMs == 10
\* timestamp = 1000.0 (seconds)
Baseline == 1000 * 1000 * TicksPerMs

\* --------------------------------------------------------------- rationals
RECURSIVE GCD(_, _)
GCD(a, b) == IF b = 0 THEN a ELSE GCD(b, a % b)

\* n/d in lowest terms, n >= 0, d > 0
Rat(n, d) == LET g == GCD(n, d) IN <<n \div g, d \div g>>
RatAdd(x, y) == Rat(x[1] * y[2] + y[1] * x[2], x[2] * y[2])
RatMul(x, y) == Rat(x[1] * y[1], x[2] * y[2])
RatZero == <<0, 1>>

\* ------------------------------------------------------------------- blobs
\* a state_dict: one value per key
ZeroBlob == [k \in Keys |-> RatZero]
\* CPTGPT(tokenizer.vocab_size) at construction
InitBlob == [k \in Keys |-> <<1, 1>>]
\* the outcomes of local training: one blob per base value, entries distinct
ParamVals == {2, 10}
TrainedBlob(v) == [k \in Keys |-> <<v + k - 1, 1>>]
TrainedBlobs == {TrainedBlob(v) : v \in ParamVals}
\* num_samples of a remote caller other than run_client
SampleCounts == {0, 30, 70}

VARIABLES
    global_model,    \* self.global_model.state_dict()
    lock,            \* self.lock: the process holding it, or NoProc
    client_updates,  \* self.client_updates
    round,           \* self.round
    pc,              \* each process's position
    model,           \* run_client: model.state_dict()
    round_num,       \* run_client: round_num
    encoded,         \* the payload of the call in flight (request or response)
    samples,         \* submit_update: num_samples of the call in flight
    status,          \* what the last call returned
    idx,             \* the handler's loop index
    total_samples,   \* aggregate: total_samples
    avg_weights,     \* aggregate: avg_weights
    lastComplete,    \* history: InitBlob, then the result of the last completed pass
    nCalls,          \* history: submit_update calls issued
    nAccepted,       \* history: updates appended
    consumed,        \* history: per appended update, the passes it was averaged in
    aggStarted,      \* history: calls of aggregate()
    zeroAccepted,    \* history: some appended update had num_samples = 0
    lenAfterAppend,  \* history: len(client_updates) right after the call's append
    fetched_round,   \* history: self.round at the fetch of the worker's iteration
    direct,          \* the process runs aggregate() as the dispatched method itself
    state,           \* UEStateMachine: self.state, per ue_id
    history,         \* UEStateMachine: self.history, per ue_id
    returned,        \* history: what each call of transition() returned, per ue_id
    timestamp,       \* generate_dataset: timestamp, in units of 1/TicksPerMs ms
    events,          \* generate_dataset: events
    iter,            \* generate_dataset: iterations of the loop done
    rows,            \* generate_dataset: the rows written to output_file
    phase,           \* check_semantic_validity: where the call is
    total_count,     \* check_semantic_validity: len(generated_sequences)
    valid_transitions, \* check_semantic_validity: valid_transitions
    boot_i,          \* check_semantic_validity: iterations of range(1000) done
    dummy_state,     \* check_semantic_validity: dummy_ue.state
    boot_history,    \* check_semantic_validity: history (of the current cycle)
    scored,          \* check_semantic_validity: sequences of the batch scored
    seq,             \* check_semantic_validity: seq, the sequence scored last
    seq_valid,       \* check_semantic_validity: seq_valid
    valid_seqs,      \* check_semantic_validity: valid_seqs
    score            \* check_semantic_validity: the value returned

coordVars == <<global_model, lock, client_updates, round>>
procVars == <<pc, model, round_num, encoded, samples, status>>
aggVars == <<idx, total_samples, avg_weights>>
histVars == <<lastComplete, nCalls, nAccepted, consumed, aggStarted, zeroAccepted,
              lenAfterAppend, fetched_round>>
\* cellular_sim.py
simVars == <<state, history, returned, timestamp, events, iter, rows>>
\* evaluate_metrics.py
oracleVars == <<phase, total_count, valid_transitions, boot_i, dummy_state,
                boot_history, scored, seq, seq_valid, valid_seqs, score>>
cellVars == <<simVars, oracleVars>>
vars == <<coordVars, procVars, aggVars, histVars, direct, cellVars>>

\* FederatedServer() with the callers A, none of them started, in a run of at
\* most n submit_update calls
FedStartFor(A, n) ==
    /\ global_model = InitBlob
    /\ lock = NoProc
    /\ client_updates = <<>>
    /\ round = 0
    /\ pc = [p \in Procs |-> IF p \notin A THEN "off"
                              ELSE IF p \in Workers THEN "w_fetch" ELSE "r_idle"]
    /\ model = [p \in Procs |-> InitBlob]
    /\ round_num = [p \in Procs |-> 0]
    /\ encoded = [p \in Procs |-> ZeroBlob]
    /\ samples = [p \in Procs |-> 0]
    /\ status = [p \in Procs |-> "NONE"]
    /\ idx = [p \in Procs |-> 0]
    /\ total_samples = [p \in Procs |-> 0]
    /\ avg_weights = [p \in Procs |-> ZeroBlob]
    /\ lastComplete = InitBlob
    /\ nCalls = 0
    /\ nAccepted = 0
    /\ consumed = [i \in 1..n |-> 0]
    /\ aggStarted = 0
    /\ zeroAccepted = FALSE
    /\ lenAfterAppend = [p \in Procs |-> 0]
    /\ fetched_round = [p \in Procs |-> NoRound]
    /\ direct = [p \in Procs |-> FALSE]

FedStart(A) == FedStartFor(A, MaxSubmits)

\* [UEStateMachine(i) for i in range(num_ues)]; timestamp = 1000.0; events = []
CellStart ==
    /\ state = [u \in UEs |-> "IDLE"]
    /\ history = [u \in UEs |-> <<>>]
    /\ returned = [u \in UEs |-> <<>>]
    /\ timestamp = Baseline
    /\ events = <<>>
    /\ iter = 0
    /\ rows = <<>>
    /\ phase = "idle"
    /\ total_count = 0
    /\ valid_transitions = {}
    /\ boot_i = 0
    /\ dummy_state = "IDLE"
    /\ boot_history = <<>>
    /\ scored = 0
    /\ seq = <<>>
    /\ seq_valid = TRUE
    /\ valid_seqs = 0
    /\ score = NoScore

Init == (\E A \in Deployments : FedStart(A)) /\ CellStart

\* ------------------------------------------------------------- the lock
\* a lock that never excludes anyone
LockIgnored == TRUE

\* threading.Lock: `with self.lock` enters only when no thread holds it
LockAvailable == lock = NoProc

\* where a call returns to in its caller
AfterFetch(p) == IF p \in Workers THEN "w_train" ELSE "r_ret"
AfterSubmit(p) == IF p \in Workers THEN "w_status" ELSE "r_ret"
\* an exception out of server.submit_update is not caught by run_client
AfterFault(p) == IF p \in Workers THEN "w_crashed" ELSE "r_ret"

\* -------------------------------------------------- get_global_weights
\* with self.lock:
GetAcquire(p) ==
    /\ pc[p] = "g_lock"
    /\ LockAvailable
    /\ lock' = p
    /\ pc' = [pc EXCEPT ![p] = "g_dump"]
    /\ idx' = [idx EXCEPT ![p] = 1]
    /\ encoded' = [encoded EXCEPT ![p] = ZeroBlob]
    /\ UNCHANGED <<global_model, client_updates, round, model, round_num,
                   samples, status, total_samples, avg_weights, histVars>>
    /\ UNCHANGED <<direct, cellVars>>

\* pickle.dumps(state_dict) walks the live tensors key by key
GetDump(p) ==
    /\ pc[p] = "g_dump"
    /\ idx[p] <= NumKeys
    /\ encoded' = [encoded EXCEPT ![p][idx[p]] = global_model[idx[p]]]
    /\ idx' = [idx EXCEPT ![p] = idx[p] + 1]
    /\ UNCHANGED <<coordVars, pc, model, round_num, samples, status,
                   total_samples, avg_weights, histVars>>
    /\ UNCHANGED <<direct, cellVars>>

\* a fetch that drops the pending updates as it returns
GetReturnClearing(p) ==
    /\ pc[p] = "g_dump"
    /\ idx[p] > NumKeys
    /\ lock' = NoProc
    /\ client_updates' = <<>>
    /\ idx' = [idx EXCEPT ![p] = 0]
    /\ pc' = [pc EXCEPT ![p] = AfterFetch(p)]
    /\ IF p \in Workers
       THEN /\ model' = [model EXCEPT ![p] = encoded[p]]
            /\ encoded' = [encoded EXCEPT ![p] = ZeroBlob]
            /\ fetched_round' = [fetched_round EXCEPT ![p] = round]
            /\ UNCHANGED status
       ELSE /\ status' = [status EXCEPT ![p] = "FETCHED"]
            /\ UNCHANGED <<model, encoded, fetched_round>>
    /\ UNCHANGED <<global_model, round, round_num, samples,
                   total_samples, avg_weights, lastComplete, nCalls, nAccepted,
                   consumed, aggStarted, zeroAccepted, lenAfterAppend>>
    /\ UNCHANGED <<direct, cellVars>>

\* return: the lock is released; run_client decodes and loads the blob
GetReturn(p) ==
    /\ pc[p] = "g_dump"
    /\ idx[p] > NumKeys
    /\ lock' = NoProc
    /\ idx' = [idx EXCEPT ![p] = 0]
    /\ pc' = [pc EXCEPT ![p] = AfterFetch(p)]
    /\ IF p \in Workers
       THEN /\ model' = [model EXCEPT ![p] = encoded[p]]
            /\ encoded' = [encoded EXCEPT ![p] = ZeroBlob]
            /\ fetched_round' = [fetched_round EXCEPT ![p] = round]
            /\ UNCHANGED status
       ELSE /\ status' = [status EXCEPT ![p] = "FETCHED"]
            /\ UNCHANGED <<model, encoded, fetched_round>>
    /\ UNCHANGED <<global_model, client_updates, round, round_num, samples,
                   total_samples, avg_weights, lastComplete, nCalls, nAccepted,
                   consumed, aggStarted, zeroAccepted, lenAfterAppend>>
    /\ UNCHANGED <<direct, cellVars>>

\* ------------------------------------------------------- submit_update
\* with self.lock:
SubmitAcquire(p) ==
    /\ pc[p] = "s_lock"
    /\ LockAvailable
    /\ lock' = p
    /\ pc' = [pc EXCEPT ![p] = "s_append"]
    /\ UNCHANGED <<global_model, client_updates, round, model, round_num,
                   encoded, samples, status, aggVars, histVars>>
    /\ UNCHANGED <<direct, cellVars>>

\* the record appended; seq (the order of acceptance) and base (the round the
\* sender's model was fetched at, NoRound for a caller that is no run_client) are
\* history
Update(p) ==
    [id |-> p, weights |-> encoded[p], samples |-> samples[p],
     seq |-> nAccepted + 1, base |-> fetched_round[p]]

\* a pending update of the same client_id is replaced
SubmitAppendOnePerClient(p) ==
    /\ pc[p] = "s_append"
    /\ client_updates' =
          Append(SelectSeq(client_updates, LAMBDA u : u.id # p), Update(p))
    /\ nAccepted' = nAccepted + 1
    /\ zeroAccepted' = (zeroAccepted \/ samples[p] = 0)
    /\ lenAfterAppend' = [lenAfterAppend EXCEPT ![p] = Len(client_updates')]
    /\ pc' = [pc EXCEPT ![p] = "s_test"]
    /\ UNCHANGED <<global_model, lock, round, model, round_num, encoded,
                   samples, status, aggVars, lastComplete, fetched_round,
                   nCalls, consumed, aggStarted>>
    /\ UNCHANGED <<direct, cellVars>>

\* an update whose model was fetched in an earlier round is dropped
SubmitAppendFresh(p) ==
    /\ pc[p] = "s_append"
    /\ IF fetched_round[p] \in {NoRound, round}
       THEN /\ client_updates' = Append(client_updates, Update(p))
            /\ nAccepted' = nAccepted + 1
       ELSE UNCHANGED <<client_updates, nAccepted>>
    /\ zeroAccepted' = (zeroAccepted \/ samples[p] = 0)
    /\ lenAfterAppend' = [lenAfterAppend EXCEPT ![p] = Len(client_updates')]
    /\ pc' = [pc EXCEPT ![p] = "s_test"]
    /\ UNCHANGED <<global_model, lock, round, model, round_num, encoded,
                   samples, status, aggVars, lastComplete, fetched_round,
                   nCalls, consumed, aggStarted>>
    /\ UNCHANGED <<direct, cellVars>>

\* self.client_updates.append({...})
SubmitAppend(p) ==
    /\ pc[p] = "s_append"
    /\ client_updates' = Append(client_updates, Update(p))
    /\ nAccepted' = nAccepted + 1
    /\ zeroAccepted' = (zeroAccepted \/ samples[p] = 0)
    /\ lenAfterAppend' = [lenAfterAppend EXCEPT ![p] = Len(client_updates) + 1]
    /\ pc' = [pc EXCEPT ![p] = "s_test"]
    /\ UNCHANGED <<global_model, lock, round, model, round_num, encoded,
                   samples, status, aggVars, lastComplete, fetched_round, nCalls, consumed,
                   aggStarted>>
    /\ UNCHANGED <<direct, cellVars>>

\* the test written with > instead of >=
QuorumReachedStrict == Len(client_updates) > MIN_CLIENTS

\* the test written against 1 instead of MIN_CLIENTS
QuorumReachedEager == Len(client_updates) >= 1

\* if len(self.client_updates) >= MIN_CLIENTS
QuorumReached == Len(client_updates) >= MIN_CLIENTS

\* the test succeeds: self.aggregate() is entered
SubmitTestAggregate(p) ==
    /\ pc[p] = "s_test"
    /\ QuorumReached
    /\ pc' = [pc EXCEPT ![p] = "a_sum"]
    /\ UNCHANGED <<coordVars, model, round_num, encoded, samples, status,
                   aggVars, histVars>>
    /\ UNCHANGED <<direct, cellVars>>

\* the test fails: return "WAITING", releasing the lock
SubmitTestWaiting(p) ==
    /\ pc[p] = "s_test"
    /\ ~QuorumReached
    /\ lock' = NoProc
    /\ status' = [status EXCEPT ![p] = "WAITING"]
    /\ pc' = [pc EXCEPT ![p] = AfterSubmit(p)]
    /\ UNCHANGED <<global_model, client_updates, round, model, round_num,
                   encoded, samples, aggVars, histVars>>
    /\ UNCHANGED <<direct, cellVars>>

\* ----------------------------------------------------------- aggregate
RECURSIVE SumSamples(_)
SumSamples(us) ==
    IF us = <<>> THEN 0 ELSE Head(us).samples + SumSamples(Tail(us))

\* every client weighted alike, whatever its sample count
WeightUniform(c, total) == Rat(1, Len(client_updates))

\* weight = client['samples'] / total_samples
Weight(c, total) == Rat(c.samples, total)

\* the running sum replaced by the last term
AccumulateOverwrite(avg, c, total) ==
    [k \in Keys |-> RatMul(c.weights[k], Weight(c, total))]

\* for key in avg_weights: avg_weights[key] += client['weights'][key] * weight
Accumulate(avg, c, total) ==
    [k \in Keys |-> RatAdd(avg[k], RatMul(c.weights[k], Weight(c, total)))]

\* the loop over a pending list us, from the running sums avg
RECURSIVE FoldAvg(_, _, _)
FoldAvg(avg, us, total) ==
    IF us = <<>> THEN avg
    ELSE FoldAvg(Accumulate(avg, Head(us), total), Tail(us), total)

\* total_samples = sum(...); avg_weights = zeros
AggSum(p) ==
    /\ pc[p] = "a_sum"
    /\ client_updates # <<>>
    /\ total_samples' = [total_samples EXCEPT ![p] = SumSamples(client_updates)]
    /\ avg_weights' = [avg_weights EXCEPT ![p] = ZeroBlob]
    /\ idx' = [idx EXCEPT ![p] = 1]
    /\ aggStarted' = aggStarted + 1
    /\ pc' = [pc EXCEPT ![p] = "a_avg"]
    /\ UNCHANGED <<coordVars, model, round_num, encoded, samples, status,
                   lastComplete, fetched_round, nCalls, nAccepted, consumed, zeroAccepted,
                   lenAfterAppend>>
    /\ UNCHANGED <<direct, cellVars>>

\* one iteration of `for client in self.client_updates`
AggAvg(p) ==
    /\ pc[p] = "a_avg"
    /\ idx[p] <= Len(client_updates)
    /\ total_samples[p] # 0
    /\ LET c == client_updates[idx[p]]
       IN /\ avg_weights' = [avg_weights EXCEPT ![p] =
                 Accumulate(avg_weights[p], c, total_samples[p])]
          /\ consumed' = [consumed EXCEPT ![c.seq] = consumed[c.seq] + 1]
    /\ IF idx[p] = Len(client_updates)
       THEN /\ pc' = [pc EXCEPT ![p] = "a_load"]
            /\ idx' = [idx EXCEPT ![p] = 1]
       ELSE /\ idx' = [idx EXCEPT ![p] = idx[p] + 1]
            /\ UNCHANGED pc
    /\ UNCHANGED <<coordVars, model, round_num, encoded, samples, status,
                   total_samples, lastComplete, fetched_round, nCalls, nAccepted, aggStarted,
                   zeroAccepted,
                   lenAfterAppend>>
    /\ UNCHANGED <<direct, cellVars>>

\* self.client_updates[0] on an empty list raises IndexError: the caller, which
\* can only be the dispatcher, gets a Fault
AggIndexError(p) ==
    /\ pc[p] = "a_sum"
    /\ client_updates = <<>>
    /\ status' = [status EXCEPT ![p] = "FAULT"]
    /\ direct' = [direct EXCEPT ![p] = FALSE]
    /\ aggStarted' = aggStarted + 1
    /\ pc' = [pc EXCEPT ![p] = AfterFault(p)]
    /\ UNCHANGED <<coordVars, model, round_num, encoded, samples, aggVars,
                   lastComplete, fetched_round, nCalls, nAccepted, consumed, zeroAccepted,
                   lenAfterAppend, cellVars>>

\* the lock taken with acquire() and no finally: the exception leaves it held
AggRaiseHolding(p) ==
    /\ pc[p] = "a_avg"
    /\ idx[p] <= Len(client_updates)
    /\ total_samples[p] = 0
    /\ direct' = [direct EXCEPT ![p] = FALSE]
    /\ status' = [status EXCEPT ![p] = "FAULT"]
    /\ idx' = [idx EXCEPT ![p] = 0]
    /\ avg_weights' = [avg_weights EXCEPT ![p] = ZeroBlob]
    /\ pc' = [pc EXCEPT ![p] = AfterFault(p)]
    /\ UNCHANGED <<global_model, lock, client_updates, round, model, round_num,
                   encoded, samples, total_samples, histVars>>
    /\ UNCHANGED cellVars

\* samples / 0 raises ZeroDivisionError in the first iteration: the with-block
\* of submit_update, if that is the caller, releases the lock; the remote caller
\* gets a Fault
AggRaise(p) ==
    /\ pc[p] = "a_avg"
    /\ idx[p] <= Len(client_updates)
    /\ total_samples[p] = 0
    /\ lock' = IF direct[p] THEN lock ELSE NoProc
    /\ direct' = [direct EXCEPT ![p] = FALSE]
    /\ status' = [status EXCEPT ![p] = "FAULT"]
    /\ idx' = [idx EXCEPT ![p] = 0]
    /\ avg_weights' = [avg_weights EXCEPT ![p] = ZeroBlob]
    /\ pc' = [pc EXCEPT ![p] = AfterFault(p)]
    /\ UNCHANGED <<global_model, client_updates, round, model, round_num,
                   encoded, samples, total_samples, histVars>>
    /\ UNCHANGED cellVars

\* self.global_model.load_state_dict(avg_weights) copies key by key
AggLoad(p) ==
    /\ pc[p] = "a_load"
    /\ global_model' = [global_model EXCEPT ![idx[p]] = avg_weights[p][idx[p]]]
    /\ IF idx[p] = NumKeys
       THEN /\ pc' = [pc EXCEPT ![p] = "a_reset"]
            /\ idx' = [idx EXCEPT ![p] = 0]
       ELSE /\ idx' = [idx EXCEPT ![p] = idx[p] + 1]
            /\ UNCHANGED pc
    /\ UNCHANGED <<lock, client_updates, round, model, round_num, encoded,
                   samples, status, total_samples, avg_weights, histVars>>
    /\ UNCHANGED <<direct, cellVars>>

\* the pending list left as it was
AggResetForgotten(p) ==
    /\ pc[p] = "a_reset"
    /\ pc' = [pc EXCEPT ![p] = "a_round"]
    /\ UNCHANGED <<coordVars, model, round_num, encoded, samples, status,
                   aggVars, histVars>>
    /\ UNCHANGED <<direct, cellVars>>

\* self.client_updates = []
AggReset(p) ==
    /\ pc[p] = "a_reset"
    /\ client_updates' = <<>>
    /\ pc' = [pc EXCEPT ![p] = "a_round"]
    /\ UNCHANGED <<global_model, lock, round, model, round_num, encoded,
                   samples, status, aggVars, histVars>>
    /\ UNCHANGED <<direct, cellVars>>

\* the counter advanced by two
AggRoundTwice(p) ==
    /\ pc[p] = "a_round"
    /\ round' = round + 2
    /\ lastComplete' = global_model
    /\ pc' = [pc EXCEPT ![p] = IF direct[p] THEN "x_ret" ELSE "s_ret"]
    /\ UNCHANGED <<global_model, lock, client_updates, model, round_num,
                   encoded, samples, status, aggVars, nCalls, nAccepted,
                   consumed, aggStarted, zeroAccepted,
                   lenAfterAppend, fetched_round>>
    /\ UNCHANGED <<direct, cellVars>>

\* self.round += 1
AggRound(p) ==
    /\ pc[p] = "a_round"
    /\ round' = round + 1
    /\ lastComplete' = global_model
    /\ pc' = [pc EXCEPT ![p] = IF direct[p] THEN "x_ret" ELSE "s_ret"]
    /\ UNCHANGED <<global_model, lock, client_updates, model, round_num,
                   encoded, samples, status, aggVars, nCalls, nAccepted,
                   consumed, aggStarted, zeroAccepted,
                   lenAfterAppend, fetched_round>>
    /\ UNCHANGED <<direct, cellVars>>

\* return "AGGREGATED", releasing the lock
SubmitReturnAggregated(p) ==
    /\ pc[p] = "s_ret"
    /\ lock' = NoProc
    /\ status' = [status EXCEPT ![p] = "AGGREGATED"]
    /\ total_samples' = [total_samples EXCEPT ![p] = 0]
    /\ avg_weights' = [avg_weights EXCEPT ![p] = ZeroBlob]
    /\ pc' = [pc EXCEPT ![p] = AfterSubmit(p)]
    /\ UNCHANGED <<global_model, client_updates, round, model, round_num,
                   encoded, samples, idx, histVars>>
    /\ UNCHANGED <<direct, cellVars>>

\* aggregate() was the dispatched method: it returns None to the remote caller
AggregateReturn(p) ==
    /\ pc[p] = "x_ret"
    /\ direct' = [direct EXCEPT ![p] = FALSE]
    /\ total_samples' = [total_samples EXCEPT ![p] = 0]
    /\ avg_weights' = [avg_weights EXCEPT ![p] = ZeroBlob]
    /\ pc' = [pc EXCEPT ![p] = "r_ret"]
    /\ UNCHANGED <<coordVars, model, round_num, encoded, samples, status, idx,
                   histVars, cellVars>>

\* ---------------------------------------------------------- run_client
\* the run may issue another submit_update call: consumed has one entry per call
\* of the run
SubmitsLeft == nCalls < Len(consumed)

\* server.get_global_weights() is sent
WorkerFetchCall(w) ==
    /\ pc[w] = "w_fetch"
    /\ pc' = [pc EXCEPT ![w] = "g_lock"]
    /\ UNCHANGED <<coordVars, model, round_num, encoded, samples, status,
                   aggVars, histVars>>
    /\ UNCHANGED <<direct, cellVars>>

\* the call raises (transport error): except branch, print
WorkerFetchFail(w) ==
    /\ pc[w] = "w_fetch"
    /\ pc' = [pc EXCEPT ![w] = "w_backoff"]
    /\ UNCHANGED <<coordVars, model, round_num, encoded, samples, status,
                   aggVars, histVars>>
    /\ UNCHANGED <<direct, cellVars>>

\* the `continue` left out: training goes on after a failed fetch
WorkerBackoffNoContinue(w) ==
    /\ pc[w] = "w_backoff"
    /\ pc' = [pc EXCEPT ![w] = "w_train"]
    /\ UNCHANGED <<coordVars, model, round_num, encoded, samples, status,
                   aggVars, histVars>>
    /\ UNCHANGED <<direct, cellVars>>

\* time.sleep(5); continue
WorkerBackoff(w) ==
    /\ pc[w] = "w_backoff"
    /\ pc' = [pc EXCEPT ![w] = "w_fetch"]
    /\ UNCHANGED <<coordVars, model, round_num, encoded, samples, status,
                   aggVars, histVars>>
    /\ UNCHANGED <<direct, cellVars>>

\* EPOCHS_PER_ROUND epochs of train_epoch: the result is opaque
WorkerTrain(w) ==
    /\ pc[w] = "w_train"
    /\ \E b \in TrainedBlobs : model' = [model EXCEPT ![w] = b]
    /\ pc' = [pc EXCEPT ![w] = "w_submit"]
    /\ UNCHANGED <<coordVars, round_num, encoded, samples, status, aggVars,
                   histVars>>
    /\ UNCHANGED <<direct, cellVars>>

\* server.submit_update(CLIENT_ID, encoded, len(messages)) is sent
WorkerSubmitCall(w) ==
    /\ pc[w] = "w_submit"
    /\ SubmitsLeft
    /\ nCalls' = nCalls + 1
    /\ encoded' = [encoded EXCEPT ![w] = model[w]]
    /\ samples' = [samples EXCEPT ![w] = LocalSamples]
    /\ pc' = [pc EXCEPT ![w] = "s_lock"]
    /\ UNCHANGED <<coordVars, model, round_num, status, aggVars, lastComplete, fetched_round,
                   nAccepted, consumed, aggStarted, zeroAccepted,
                   lenAfterAppend>>
    /\ UNCHANGED <<direct, cellVars>>

\* the call raises (transport error): no handler, run_client ends
WorkerSubmitFail(w) ==
    /\ pc[w] = "w_submit"
    /\ pc' = [pc EXCEPT ![w] = "w_crashed"]
    /\ model' = [model EXCEPT ![w] = ZeroBlob]
    /\ UNCHANGED <<coordVars, round_num, encoded, samples, status,
                   aggVars, histVars>>
    /\ UNCHANGED <<direct, cellVars>>

\* if round_num > 0 and round_num % 5 == 0
SamplingDue(n) == n > 0 /\ n % EvalPeriod = 0

\* if status == "AGGREGATED": round_num += 1; time.sleep(2); then the test of
\* the periodic sampling: the next iteration unless the sampling is due
WorkerStatus(w) ==
    /\ pc[w] = "w_status"
    /\ round_num' = [round_num EXCEPT ![w] =
           IF status[w] = "AGGREGATED" THEN round_num[w] + 1 ELSE round_num[w]]
    /\ status' = [status EXCEPT ![w] = "NONE"]
    /\ encoded' = [encoded EXCEPT ![w] = ZeroBlob]
    /\ samples' = [samples EXCEPT ![w] = 0]
    /\ lenAfterAppend' = [lenAfterAppend EXCEPT ![w] = 0]
    /\ fetched_round' = [fetched_round EXCEPT ![w] = NoRound]
    /\ pc' = [pc EXCEPT ![w] =
           IF SamplingDue(round_num'[w]) THEN "w_eval" ELSE "w_fetch"]
    /\ UNCHANGED <<coordVars, model, aggVars, lastComplete, nCalls, nAccepted,
                   consumed, aggStarted, zeroAccepted>>
    /\ UNCHANGED <<direct, cellVars>>

\* the sampling: model.eval(), 50 sequences generated from the local model,
\* gen_data_<CLIENT_ID>_round<round_num>.csv written. The sequences and the file
\* are outputs the loop never reads; the next statement is the top of the loop
WorkerEval(w) ==
    /\ pc[w] = "w_eval"
    /\ pc' = [pc EXCEPT ![w] = "w_fetch"]
    /\ UNCHANGED <<coordVars, model, round_num, encoded, samples, status,
                   aggVars, histVars>>
    /\ UNCHANGED <<direct, cellVars>>

\* a statement of the sampling raises (open() of the file, for one): the block
\* is inside no try, so the exception leaves the loop and run_client ends
WorkerEvalFail(w) ==
    /\ pc[w] = "w_eval"
    /\ pc' = [pc EXCEPT ![w] = "w_crashed"]
    /\ model' = [model EXCEPT ![w] = ZeroBlob]
    /\ UNCHANGED <<coordVars, round_num, encoded, samples, status,
                   aggVars, histVars>>
    /\ UNCHANGED <<direct, cellVars>>

\* ------------------------------------------- any other remote caller
RawFetchCall(r) ==
    /\ pc[r] = "r_idle"
    /\ pc' = [pc EXCEPT ![r] = "g_lock"]
    /\ UNCHANGED <<coordVars, model, round_num, encoded, samples, status,
                   aggVars, histVars>>
    /\ UNCHANGED <<direct, cellVars>>

RawSubmitCall(r) ==
    /\ pc[r] = "r_idle"
    /\ SubmitsLeft
    /\ nCalls' = nCalls + 1
    /\ \E b \in TrainedBlobs, n \in SampleCounts :
          /\ encoded' = [encoded EXCEPT ![r] = b]
          /\ samples' = [samples EXCEPT ![r] = n]
    /\ pc' = [pc EXCEPT ![r] = "s_lock"]
    /\ UNCHANGED <<coordVars, model, round_num, status, aggVars, lastComplete, fetched_round,
                   nAccepted, consumed, aggStarted, zeroAccepted,
                   lenAfterAppend>>
    /\ UNCHANGED <<direct, cellVars>>

\* the caller has its answer
RawDone(r) ==
    /\ pc[r] = "r_ret"
    /\ pc' = [pc EXCEPT ![r] = "r_idle"]
    /\ status' = [status EXCEPT ![r] = "NONE"]
    /\ encoded' = [encoded EXCEPT ![r] = ZeroBlob]
    /\ samples' = [samples EXCEPT ![r] = 0]
    /\ lenAfterAppend' = [lenAfterAppend EXCEPT ![r] = 0]
    /\ UNCHANGED <<coordVars, model, round_num, aggVars, lastComplete, fetched_round, nCalls,
                   nAccepted, consumed, aggStarted, zeroAccepted>>
    /\ UNCHANGED <<direct, cellVars>>

Next ==
    \/ \E p \in Procs : GetAcquire(p)
    \/ \E p \in Procs : GetDump(p)
    \/ \E p \in Procs : GetReturn(p)
    \/ \E p \in Procs : SubmitAcquire(p)
    \/ \E p \in Procs : SubmitAppend(p)
    \/ \E p \in Procs : SubmitTestAggregate(p)
    \/ \E p \in Procs : SubmitTestWaiting(p)
    \/ \E p \in Procs : AggSum(p)
    \/ \E p \in Procs : AggAvg(p)
    \/ \E p \in Procs : AggRaise(p)
    \/ \E p \in Procs : AggLoad(p)
    \/ \E p \in Procs : AggReset(p)
    \/ \E p \in Procs : AggRound(p)
    \/ \E p \in Procs : SubmitReturnAggregated(p)
    \/ \E w \in Workers : WorkerFetchCall(w)
    \/ \E w \in Workers : WorkerFetchFail(w)
    \/ \E w \in Workers : WorkerBackoff(w)
    \/ \E w \in Workers : WorkerTrain(w)
    \/ \E w \in Workers : WorkerSubmitCall(w)
    \/ \E w \in Workers : WorkerSubmitFail(w)
    \/ \E w \in Workers : WorkerStatus(w)
    \/ \E r \in Raws : RawFetchCall(r)
    \/ \E r \in Raws : RawSubmitCall(r)
    \/ \E r \in Raws : RawDone(r)

Spec == Init /\ [][Next]_vars

\* ---------------------------------------------- one run_client on its own
\* run_client started as the only caller of a fresh coordinator: it reaches the
\* quorum by itself with every second update
EvalInit == FedStartFor({"client_1"}, MaxEvalSubmits) /\ CellStart

EvalNext ==
    \/ \E p \in Workers : GetAcquire(p)
    \/ \E p \in Workers : GetDump(p)
    \/ \E p \in Workers : GetReturn(p)
    \/ \E p \in Workers : SubmitAcquire(p)
    \/ \E p \in Workers : SubmitAppend(p)
    \/ \E p \in Workers : SubmitTestAggregate(p)
    \/ \E p \in Workers : SubmitTestWaiting(p)
    \/ \E p \in Workers : AggSum(p)
    \/ \E p \in Workers : AggAvg(p)
    \/ \E p \in Workers : AggLoad(p)
    \/ \E p \in Workers : AggReset(p)
    \/ \E p \in Workers : AggRound(p)
    \/ \E p \in Workers : SubmitReturnAggregated(p)
    \/ \E w \in Workers : WorkerFetchCall(w)
    \/ \E w \in Workers : WorkerFetchFail(w)
    \/ \E w \in Workers : WorkerBackoff(w)
    \/ \E w \in Workers : WorkerTrain(w)
    \/ \E w \in Workers : WorkerSubmitCall(w)
    \/ \E w \in Workers : WorkerSubmitFail(w)
    \/ \E w \in Workers : WorkerStatus(w)
    \/ \E w \in Workers : WorkerEval(w)
    \/ \E w \in Workers : WorkerEvalFail(w)

EvalSpec == EvalInit /\ [][EvalNext]_vars

\* --------------------------------------- one run_client that keeps looping
\* the steps of the only thread of run_client and of the handler thread serving
\* it, without the two exceptions that end run_client
LiveNext ==
    \/ \E p \in Workers : GetAcquire(p)
    \/ \E p \in Workers : GetDump(p)
    \/ \E p \in Workers : GetReturn(p)
    \/ \E p \in Workers : SubmitAcquire(p)
    \/ \E p \in Workers : SubmitAppend(p)
    \/ \E p \in Workers : SubmitTestAggregate(p)
    \/ \E p \in Workers : SubmitTestWaiting(p)
    \/ \E p \in Workers : AggSum(p)
    \/ \E p \in Workers : AggAvg(p)
    \/ \E p \in Workers : AggLoad(p)
    \/ \E p \in Workers : AggReset(p)
    \/ \E p \in Workers : AggRound(p)
    \/ \E p \in Workers : SubmitReturnAggregated(p)
    \/ \E w \in Workers : WorkerFetchCall(w)
    \/ \E w \in Workers : WorkerFetchFail(w)
    \/ \E w \in Workers : WorkerBackoff(w)
    \/ \E w \in Workers : WorkerTrain(w)
    \/ \E w \in Workers : WorkerSubmitCall(w)
    \/ \E w \in Workers : WorkerStatus(w)
    \/ \E w \in Workers : WorkerEval(w)

\* a thread that can take a step takes it; a fetch that is retried for ever gets
\* through in the end
LiveFairness ==
    /\ WF_vars(LiveNext)
    /\ \A w \in Workers : SF_vars(WorkerFetchCall(w))

LiveSpec == EvalInit /\ [][LiveNext]_vars /\ LiveFairness

\* ------------------------------------------------------- start_server
\* SimpleXMLRPCServer handles one request at a time (serve_forever without a
\* threading mix-in): a request is dispatched when no handler is running
ClientSteps == {"off", "w_fetch", "w_backoff", "w_train", "w_submit", "w_status",
                "w_eval", "w_crashed", "r_idle", "r_ret", "g_lock", "s_lock"}
ServerIdle == \A q \in Procs : pc[q] \in ClientSteps

\* a get_global_weights request is dispatched
ServeGet(p) == ServerIdle /\ GetAcquire(p)

\* a submit_update request is dispatched
ServeSubmit(p) == ServerIdle /\ SubmitAcquire(p)

\* register_instance(fed_server) registers every public method of the instance:
\* an aggregate request is dispatched to FederatedServer.aggregate, which takes
\* no lock and makes no test of its own
ServeAggregate(r) ==
    /\ pc[r] = "r_idle"
    /\ ServerIdle
    /\ aggStarted < MaxAggregates
    /\ direct' = [direct EXCEPT ![r] = TRUE]
    /\ pc' = [pc EXCEPT ![r] = "a_sum"]
    /\ UNCHANGED <<coordVars, model, round_num, encoded, samples, status,
                   aggVars, histVars, cellVars>>

RpcNext ==
    \/ \E p \in Procs : ServeGet(p)
    \/ \E p \in Procs : GetDump(p)
    \/ \E p \in Procs : GetReturn(p)
    \/ \E p \in Procs : ServeSubmit(p)
    \/ \E p \in Procs : SubmitAppend(p)
    \/ \E p \in Procs : SubmitTestAggregate(p)
    \/ \E p \in Procs : SubmitTestWaiting(p)
    \/ \E r \in Raws : ServeAggregate(r)
    \/ \E p \in Procs : AggIndexError(p)
    \/ \E p \in Procs : AggSum(p)
    \/ \E p \in Procs : AggAvg(p)
    \/ \E p \in Procs : AggRaise(p)
    \/ \E p \in Procs : AggLoad(p)
    \/ \E p \in Procs : AggReset(p)
    \/ \E p \in Procs : AggRound(p)
    \/ \E p \in Procs : SubmitReturnAggregated(p)
    \/ \E p \in Procs : AggregateReturn(p)
    \/ \E w \in Workers : WorkerFetchCall(w)
    \/ \E w \in Workers : WorkerFetchFail(w)
    \/ \E w \in Workers : WorkerBackoff(w)
    \/ \E w \in Workers : WorkerTrain(w)
    \/ \E w \in Workers : WorkerSubmitCall(w)
    \/ \E w \in Workers : WorkerSubmitFail(w)
    \/ \E w \in Workers : WorkerStatus(w)
    \/ \E r \in Raws : RawFetchCall(r)
    \/ \E r \in Raws : RawSubmitCall(r)
    \/ \E r \in Raws : RawDone(r)

RpcSpec == Init /\ [][RpcNext]_vars

\* ------------------------------------------------------ cellular_sim.py
MESSAGES ==
    {"RRC_CONNECTION_REQUEST", "RRC_CONNECTION_SETUP",
     "RRC_CONNECTION_SETUP_COMPLETE", "ATTACH_REQUEST", "AUTH_REQUEST",
     "AUTH_RESPONSE", "SEC_MODE_COMMAND", "SEC_MODE_COMPLETE", "ATTACH_ACCEPT",
     "ATTACH_COMPLETE", "SERVICE_REQUEST", "DATA_TRANSFER_UPLINK",
     "DATA_TRANSFER_DOWNLINK", "RRC_CONNECTION_RELEASE", "DETACH_REQUEST",
     "DETACH_ACCEPT"}

\* One branch of transition() per state: the outcomes <<msg, self.state>>.
FromIdle == {<<"RRC_CONNECTION_REQUEST", "RRC_WAIT">>}
\* the request answered with a tag the vocabulary does not list
FromRrcWaitReject == {<<"RRC_CONNECTION_REJECT", "RRC_SETUP">>}
FromRrcWait == {<<"RRC_CONNECTION_SETUP", "RRC_SETUP">>}
FromRrcSetup == {<<"RRC_CONNECTION_SETUP_COMPLETE", "ATTACH_START">>}
FromAttachStart == {<<"ATTACH_REQUEST", "AUTH_WAIT">>}
FromAuthWait == {<<"AUTH_REQUEST", "AUTH_RESP">>}
FromAuthResp == {<<"AUTH_RESPONSE", "SEC_WAIT">>}
\* the security-mode command skipped
FromSecWaitSkipped == {<<"SEC_MODE_COMPLETE", "SEC_COMP">>}
FromSecWait == {<<"SEC_MODE_COMMAND", "SEC_COMP">>}
FromSecComp == {<<"SEC_MODE_COMPLETE", "ATTACH_ACC_WAIT">>}
FromAttachAccWait == {<<"ATTACH_ACCEPT", "ATTACH_COMP">>}
\* the attach completed straight back to IDLE
FromAttachCompToIdle == {<<"ATTACH_COMPLETE", "IDLE">>}
FromAttachComp == {<<"ATTACH_COMPLETE", "CONNECTED">>}
\* a release of the connection added to the choices
FromConnectedWithRelease ==
    {<<"DATA_TRANSFER_UPLINK", "CONNECTED">>,
     <<"DATA_TRANSFER_DOWNLINK", "CONNECTED">>,
     <<"DETACH_REQUEST", "DETACH_WAIT">>,
     <<"RRC_CONNECTION_RELEASE", "IDLE">>}
\* the detach never chosen
FromConnectedNoDetach ==
    {<<"DATA_TRANSFER_UPLINK", "CONNECTED">>,
     <<"DATA_TRANSFER_DOWNLINK", "CONNECTED">>}
\* choice < 0.8: one of the two data transfers, the state kept; else the detach
FromConnected ==
    {<<"DATA_TRANSFER_UPLINK", "CONNECTED">>,
     <<"DATA_TRANSFER_DOWNLINK", "CONNECTED">>,
     <<"DETACH_REQUEST", "DETACH_WAIT">>}
\* the branch left out: no message, the state kept
FromDetachWaitMissing == {<<None, "DETACH_WAIT">>}
FromDetachWait == {<<"DETACH_ACCEPT", "IDLE">>}

\* the if / elif chain over self.state; without a matching branch msg stays None
Step(s) ==
    CASE s = "IDLE" -> FromIdle
      [] s = "RRC_WAIT" -> FromRrcWait
      [] s = "RRC_SETUP" -> FromRrcSetup
      [] s = "ATTACH_START" -> FromAttachStart
      [] s = "AUTH_WAIT" -> FromAuthWait
      [] s = "AUTH_RESP" -> FromAuthResp
      [] s = "SEC_WAIT" -> FromSecWait
      [] s = "SEC_COMP" -> FromSecComp
      [] s = "ATTACH_ACC_WAIT" -> FromAttachAccWait
      [] s = "ATTACH_COMP" -> FromAttachComp
      [] s = "CONNECTED" -> FromConnected
      [] s = "DETACH_WAIT" -> FromDetachWait
      [] OTHER -> {<<None, s>>}

\* if msg: self.history.append(msg)
Recorded(h, msg) == IF msg # None THEN Append(h, msg) ELSE h

\* UEStateMachine.transition() called on the machine u by its owner
transition(u) ==
    /\ Len(returned[u]) < MaxHistory
    /\ \E o \in Step(state[u]) :
          /\ state' = [state EXCEPT ![u] = o[2]]
          /\ history' = [history EXCEPT ![u] = Recorded(history[u], o[1])]
          /\ returned' = [returned EXCEPT ![u] = Append(returned[u], o[1])]
    /\ UNCHANGED <<coordVars, procVars, aggVars, histVars, direct, timestamp,
                   events, iter, rows, oracleVars>>

\* one UEStateMachine(0), as check_semantic_validity builds its dummy_ue
UeInit == FedStart({}) /\ CellStart
UeNext == \E u \in {0} : transition(u)
UeSpec == UeInit /\ [][UeNext]_vars

\* what is kept of a list after one more append: the model keeps the first
\* MaxHistory entries of a history that grows for ever
Kept(h, msg) == IF Len(h) < MaxHistory THEN Append(h, msg) ELSE h

\* UEStateMachine.transition() called on a machine u that is advanced for ever
transitionOn(u) ==
    /\ \E o \in Step(state[u]) :
          /\ state' = [state EXCEPT ![u] = o[2]]
          /\ history' = [history EXCEPT ![u] =
                 IF o[1] # None THEN Kept(history[u], o[1]) ELSE history[u]]
          /\ returned' = [returned EXCEPT ![u] = Kept(returned[u], o[1])]
    /\ UNCHANGED <<coordVars, procVars, aggVars, histVars, direct, timestamp,
                   events, iter, rows, oracleVars>>

\* the else branch of random.random() < 0.8 in CONNECTED
DetachChosen(u) == transitionOn(u) /\ state[u] = "CONNECTED" /\ state'[u] = "DETACH_WAIT"

\* the owner keeps calling transition(); a branch of probability 0.2 that is
\* tried again and again is taken in the end
UeFairNext == \E u \in {0} : transitionOn(u)
UeFairness == WF_vars(UeFairNext) /\ \A u \in {0} : SF_vars(DetachChosen(u))
UeFairSpec == UeInit /\ [][UeFairNext]_vars /\ UeFairness

\* random.uniform(0.01, 0.5), in ticks: the two ends of the range and one value
\* between whose last digit the log drops
NoMinIncrement == 0 * TicksPerMs
MinIncrement == 10 * TicksPerMs
MaxIncrement == 500 * TicksPerMs
Increments == {MinIncrement, MinIncrement + 4, MaxIncrement - 1}

\* f"{timestamp:.3f}": the nearest multiple of one millisecond, the even one of
\* the two when the value is halfway (the rounding error of the float sum is
\* not modelled)
Format(t) ==
    LET q == t \div TicksPerMs
        r == t % TicksPerMs
    IN IF 2 * r < TicksPerMs THEN q
       ELSE IF 2 * r > TicksPerMs THEN q + 1
       ELSE IF q % 2 = 0 THEN q ELSE q + 1

\* every row labelled with the UE chosen, the message taken from machine 0
GenerateEventOneMachine ==
    /\ iter < MaxEvents
    /\ iter' = iter + 1
    /\ \E u \in UEs : \E o \in Step(state[0]) :
          /\ state' = [state EXCEPT ![0] = o[2]]
          /\ history' = [history EXCEPT ![0] = Recorded(history[0], o[1])]
          /\ returned' = [returned EXCEPT ![0] = Append(returned[0], o[1])]
          /\ IF o[1] # None
             THEN \E d \in Increments :
                     /\ timestamp' = timestamp + d
                     /\ events' = Append(events, [ts |-> Format(timestamp + d),
                                                  ue |-> u, msg |-> o[1]])
             ELSE UNCHANGED <<timestamp, events>>
    /\ UNCHANGED <<coordVars, procVars, aggVars, histVars, direct, rows,
                   oracleVars>>

\* one iteration of `for _ in range(max_events)`
GenerateEvent ==
    /\ iter < MaxEvents
    /\ iter' = iter + 1
    /\ \E u \in UEs : \E o \in Step(state[u]) :
          /\ state' = [state EXCEPT ![u] = o[2]]
          /\ history' = [history EXCEPT ![u] = Recorded(history[u], o[1])]
          /\ returned' = [returned EXCEPT ![u] = Append(returned[u], o[1])]
          /\ IF o[1] # None
             THEN \E d \in Increments :
                     /\ timestamp' = timestamp + d
                     /\ events' = Append(events, [ts |-> Format(timestamp + d),
                                                  ue |-> u, msg |-> o[1]])
             ELSE UNCHANGED <<timestamp, events>>
    /\ UNCHANGED <<coordVars, procVars, aggVars, histVars, direct, rows,
                   oracleVars>>

\* writer.writerow(["Timestamp", "UE_ID", "Message"]); writer.writerows(events)
WriteDataset ==
    /\ iter = MaxEvents
    /\ rows = <<>>
    /\ rows' = <<"header">> \o events
    /\ UNCHANGED <<coordVars, procVars, aggVars, histVars, direct, state,
                   history, returned, timestamp, events, iter, oracleVars>>

TraceNext == GenerateEvent \/ WriteDataset
TraceSpec == UeInit /\ [][TraceNext]_vars

\* --------------------------------------------------- evaluate_metrics.py
\* the sentinel before the first message
START == "START"
DataTransferTags == {"DATA_TRANSFER_UPLINK", "DATA_TRANSFER_DOWNLINK"}
\* "DATA" in m, for m a tag of MESSAGES or the sentinel
HasData(m) == m \in DataTransferTags

\* one data-transfer tag is enough
RelaxedEither(prev, curr) == HasData(prev) \/ HasData(curr)
\* if "DATA" in prev and "DATA" in curr: continue
Relaxed(prev, curr) == HasData(prev) /\ HasData(curr)

\* the sentinel kept for the second element as well
PrevOfLate(s, i) == IF i > 2 THEN s[i - 1] ELSE START
\* prev = seq[i-1] if i > 0 else "START" (i counts from 1 here)
PrevOf(s, i) == IF i > 1 THEN s[i - 1] ELSE START

\* the body of `for i in range(len(seq))`: TRUE when the loop goes on
PairAccepted(prev, curr, vt) ==
    \/ <<prev, curr>> \in vt
    \/ prev = START /\ <<prev, curr>> \in vt
    \/ Relaxed(prev, curr)

RECURSIVE SeqValidNonEmpty(_, _, _)
\* no break: seq_valid is what the last pair of seq makes it
SeqValidByLastPair(s, i, vt) ==
    Len(s) = 0 \/ PairAccepted(PrevOf(s, Len(s)), s[Len(s)], vt)

\* a sequence without a pair found invalid
SeqValidNonEmpty(s, i, vt) ==
    IF i > Len(s) THEN Len(s) > 0
    ELSE IF PairAccepted(PrevOf(s, i), s[i], vt) THEN SeqValidNonEmpty(s, i + 1, vt)
    ELSE FALSE

\* seq_valid after the loop over seq from index i on
RECURSIVE SeqValidFrom(_, _, _)
SeqValidFrom(s, i, vt) ==
    IF i > Len(s) THEN TRUE
    ELSE IF PairAccepted(PrevOf(s, i), s[i], vt) THEN SeqValidFrom(s, i + 1, vt)
    ELSE FALSE

\* the sequences a batch is drawn from: the full cycles with up to MaxLoops data
\* transfers; the short ones with one element replaced by any tag; their
\* prefixes, the empty one included; and each continued into a further cycle, as
\* the messages of one UE_ID in a log of generate_dataset are
AttachProcedure ==
    <<"RRC_CONNECTION_REQUEST", "RRC_CONNECTION_SETUP",
      "RRC_CONNECTION_SETUP_COMPLETE", "ATTACH_REQUEST", "AUTH_REQUEST",
      "AUTH_RESPONSE", "SEC_MODE_COMMAND", "SEC_MODE_COMPLETE", "ATTACH_ACCEPT",
      "ATTACH_COMPLETE">>
DataRuns == UNION {[1..n -> DataTransferTags] : n \in 0..MaxLoops}
FullCycles ==
    {AttachProcedure \o d \o <<"DETACH_REQUEST", "DETACH_ACCEPT">> : d \in DataRuns}
Replaced(s, i, m) == [s EXCEPT ![i] = m]
Prefixes == UNION {{SubSeq(c, 1, n) : n \in 0..Len(c)} : c \in FullCycles}
Continued ==
    UNION {{c \o SubSeq(d, 1, n) : n \in {1, 2, Len(d)}} :
           c \in FullCycles, d \in {e \in FullCycles : Len(e) = 12}}
\* the cycles with at most one data transfer: every pair of tags that a
\* replacement can make is made in one of them
ShortCycles == {c \in FullCycles : Len(c) <= Len(AttachProcedure) + 3}
Candidates ==
    FullCycles \cup Prefixes \cup Continued \cup
    UNION {{Replaced(c, i, m) : i \in 1..Len(c), m \in MESSAGES} : c \in ShortCycles}

\* check_semantic_validity(generated_sequences) is called; the first loop over
\* the sequences changes nothing
CheckStart ==
    /\ phase = "idle"
    /\ \E n \in 0..MaxBatch : total_count' = n
    /\ valid_transitions' = {}
    /\ dummy_state' = "IDLE"
    /\ boot_i' = 0
    /\ phase' = "boot"
    /\ UNCHANGED <<coordVars, procVars, aggVars, histVars, direct, simVars,
                   boot_history, scored, seq, seq_valid, valid_seqs, score>>

\* for _ in range(1000): dummy_ue.state = "IDLE"; history = []
BootCycle ==
    /\ phase = "boot"
    /\ boot_i < BootCycles
    /\ dummy_state' = "IDLE"
    /\ boot_history' = <<>>
    /\ phase' = "cycle"
    /\ UNCHANGED <<coordVars, procVars, aggVars, histVars, direct, simVars,
                   total_count, valid_transitions, boot_i, scored, seq,
                   seq_valid, valid_seqs, score>>

\* the first message of the cycle taken instead of the last
PrevInCycleFirst(h) == IF h # <<>> THEN h[1] ELSE START

\* prev = history[-1] if history else "START"
PrevInCycle(h) == IF h # <<>> THEN h[Len(h)] ELSE START

\* one iteration of the while loop; dummy_ue.history is written and never read
BootStep ==
    /\ phase = "cycle"
    /\ Len(boot_history) < MaxHistory
    /\ \E o \in Step(dummy_state) :
          LET prev == PrevInCycle(boot_history)
              curr == o[1]
              h == Recorded(boot_history, curr)
          IN /\ dummy_state' = o[2]
             /\ boot_history' = h
             /\ valid_transitions' =
                    IF curr # None THEN valid_transitions \cup {<<prev, curr>>}
                    ELSE valid_transitions
             /\ IF o[2] = "IDLE" /\ h # <<>>
                THEN phase' = "boot" /\ boot_i' = boot_i + 1
                ELSE UNCHANGED <<phase, boot_i>>
    /\ UNCHANGED <<coordVars, procVars, aggVars, histVars, direct, simVars,
                   total_count, scored, seq, seq_valid, valid_seqs, score>>

\* valid_seqs = 0, after the last bootstrap cycle (history is dead from here on)
BootDone ==
    /\ phase = "boot"
    /\ boot_i = BootCycles
    /\ valid_seqs' = 0
    /\ scored' = 0
    /\ boot_history' = <<>>
    /\ phase' = "score"
    /\ UNCHANGED <<coordVars, procVars, aggVars, histVars, direct, simVars,
                   total_count, valid_transitions, boot_i, dummy_state, seq,
                   seq_valid, score>>

\* `for seq in generated_sequences`: the next sequence and the loop over it
ScoreSequence ==
    /\ phase = "score"
    /\ scored < total_count
    /\ \E s \in Candidates :
          /\ seq' = s
          /\ seq_valid' = SeqValidFrom(s, 1, valid_transitions)
    /\ phase' = "count"
    /\ UNCHANGED <<coordVars, procVars, aggVars, histVars, direct, simVars,
                   total_count, valid_transitions, boot_i, dummy_state,
                   boot_history, scored, valid_seqs, score>>

\* if seq_valid: valid_seqs += 1; seq is rebound by the next iteration
CountSequence ==
    /\ phase = "count"
    /\ valid_seqs' = IF seq_valid THEN valid_seqs + 1 ELSE valid_seqs
    /\ scored' = scored + 1
    /\ seq' = <<>>
    /\ seq_valid' = TRUE
    /\ phase' = "score"
    /\ UNCHANGED <<coordVars, procVars, aggVars, histVars, direct, simVars,
                   total_count, valid_transitions, boot_i, dummy_state,
                   boot_history, score>>

\* the share of the sequences scored invalid
ScoreOfInvalid(valid, total) ==
    IF total > 0 THEN Rat(total - valid, total) ELSE RatZero

\* valid_seqs / total_count if total_count > 0 else 0.0
ScoreOf(valid, total) == IF total > 0 THEN Rat(valid, total) ELSE RatZero

\* return valid_seqs / total_count if total_count > 0 else 0.0
CheckReturn ==
    /\ phase = "score"
    /\ scored = total_count
    /\ score' = ScoreOf(valid_seqs, total_count)
    /\ phase' = "done"
    /\ UNCHANGED <<coordVars, procVars, aggVars, histVars, direct, simVars,
                   total_count, valid_transitions, boot_i, dummy_state,
                   boot_history, scored, seq, seq_valid, valid_seqs>>

OracleNext ==
    \/ CheckStart
    \/ BootCycle
    \/ BootStep
    \/ BootDone
    \/ ScoreSequence
    \/ CountSequence
    \/ CheckReturn
OracleSpec == UeInit /\ [][OracleNext]_vars

\* ============================================================== claims
\* positions between the acquisition and the release of the lock
FetchSection == {"g_dump"}
AggregateSection == {"a_sum", "a_avg", "a_load", "a_reset", "a_round"}
SubmitSection == {"s_append", "s_test", "s_ret"} \cup AggregateSection
InCritical(p) == pc[p] \in FetchSection \cup SubmitSection
InCall(p) == InCritical(p) \/ pc[p] \in {"g_lock", "s_lock"}
AllReturned == \A p \in Procs : ~InCall(p)
\* the serialisation of a fetch is complete: what it returns is fixed
DumpDone(p) == pc[p] = "g_dump" /\ idx[p] > NumKeys
IsPending(i) == \E j \in 1..Len(client_updates) : client_updates[j].seq = i

C2_OneCriticalSection ==
    /\ \A p, q \in Procs : (InCritical(p) /\ InCritical(q)) => p = q
    /\ \A p \in Procs : InCritical(p) => lock = p
    /\ Cardinality({p \in Procs : pc[p] \in AggregateSection}) <= 1

\* a pass is loading the new parameters while another submit() waits for the lock
C2_Witness ==
    \E p, q \in Procs : pc[p] = "a_load" /\ pc[q] = "s_lock"

\* C3 (as stated): whenever no thread holds the lock, len(pending) < quorum.
C3_BelowQuorumWhenUnlocked ==
    lock = NoProc => Len(client_updates) < MIN_CLIENTS

\* C4: what a fetch returns is a complete blob: when its serialisation is done
\* the payload equals the initial parameters or the full result of the last
\* completed aggregation pass, never a mix of two passes; the payload is a copy,
\* so what a worker loaded stays what was returned.
C4_FetchComplete ==
    \A p \in Procs : DumpDone(p) => encoded[p] = lastComplete

\* a fetch has serialised the result of a completed pass while a submit() waits
C4_Witness ==
    \E p, q \in Procs :
        /\ DumpDone(p)
        /\ round >= 1
        /\ encoded[p] # InitBlob
        /\ pc[q] = "s_lock"

\* Sum_i p_i * s_i / Sum_i s_i for key k, computed as one quotient
RECURSIVE SumWeighted(_, _)
SumWeighted(us, k) ==
    IF us = <<>> THEN RatZero
    ELSE RatAdd(Rat(Head(us).weights[k][1] * Head(us).samples, Head(us).weights[k][2]),
                SumWeighted(Tail(us), k))
MeanOf(us, k) == RatMul(SumWeighted(us, k), <<1, SumSamples(us)>>)
\* the two updates of the example: values 2.0 and 10.0, sample counts 30 and 70
IsExample(us) ==
    /\ Len(us) = 2
    /\ us[1].samples = 30 /\ us[1].weights[1] = <<2, 1>>
    /\ us[2].samples = 70 /\ us[2].weights[1] = <<10, 1>>

\* C5 (as stated): a pass sets every global parameter to the sample-count-
\* weighted mean of the pending updates; for sample counts 30 and 70 and values
\* 2.0 and 10.0 the result is 7.4 (37/5).
C5_WeightedMeanExample74 ==
    \A p \in Procs :
        pc[p] = "a_reset" =>
            /\ \A k \in Keys : global_model[k] = MeanOf(client_updates, k)
            /\ IsExample(client_updates) => global_model[1] = <<37, 5>>

\* C5 (amended): a pass sets every global parameter to the sample-count-weighted
\* mean of the pending updates; for sample counts 30 and 70 and values 2.0 and
\* 10.0 the result is 2.0 * 0.3 + 10.0 * 0.7 = 7.6 (38/5).
C5_WeightedMean ==
    \A p \in Procs :
        pc[p] = "a_reset" =>
            /\ \A k \in Keys : global_model[k] = MeanOf(client_updates, k)
            /\ IsExample(client_updates) => global_model[1] = <<38, 5>>

\* the example's pass has loaded its result
C5_Witness ==
    \E p \in Procs :
        /\ pc[p] = "a_reset"
        /\ IsExample(client_updates)
        /\ global_model[1] = <<38, 5>>

\* a submit() has returned to its caller, which has not yet dropped the answer
SubmitReturned(p) == status[p] \in {"WAITING", "AGGREGATED", "FAULT"}

\* C6 (as stated): submit() returns AGGREGATED if the pending count after its
\* append is >= quorum, and WAITING otherwise.
C6_StatusMatchesQuorum ==
    \A p \in Procs :
        SubmitReturned(p) =>
            /\ status[p] \in {"WAITING", "AGGREGATED"}
            /\ status[p] = "AGGREGATED" <=> lenAfterAppend[p] >= MIN_CLIENTS

C8_ConsumedOnce ==
    \A i \in 1..MaxSubmits :
        /\ consumed[i] <= 1
        /\ i > nAccepted => consumed[i] = 0
        /\ i <= nAccepted => (IsPending(i) \/ consumed[i] = 1)
        /\ (lock = NoProc /\ IsPending(i)) => consumed[i] = 0

\* a quorum has been consumed and a later update is pending
C8_Witness ==
    /\ lock = NoProc
    /\ consumed[1] = 1
    /\ consumed[2] = 1
    /\ nAccepted = 3
    /\ IsPending(3)

\* C9 (as stated): no aggregation pass ever divides by total_samples = 0.
C9_NoZeroDivision ==
    \A p \in Procs : pc[p] = "a_avg" => total_samples[p] # 0

\* C10 (as stated): a worker whose fetch or submit call fails does not
\* terminate; it waits and retries that step.
C10_WorkerNeverTerminates ==
    \A w \in Workers : pc[w] # "w_crashed"

\* C11: the global parameters, the round counter and the pending set change only
\* inside a submit() that holds the lock: whoever is inside an aggregation pass
\* holds the lock, and a pass starts over at least quorum pending updates.
C11_PassOnlyInsideSubmit ==
    \A p \in Procs :
        pc[p] \in AggregateSection =>
            /\ lock = p
            /\ ~direct[p]
            /\ pc[p] = "a_sum" => Len(client_updates) >= MIN_CLIENTS

\* a submit() call is somewhere between its request and its return
SubmitInFlight(p) == pc[p] \in SubmitSection \cup {"s_lock"} /\ ~direct[p]
\* fewer than quorum updates are pending and no submit() call is in flight
Starved ==
    /\ Len(client_updates) < MIN_CLIENTS
    /\ \A p \in Procs : ~SubmitInFlight(p)

\* C19: while fewer than quorum updates have been submitted since the last
\* aggregation pass and no submit() is in flight, no step changes the round
\* counter or the global parameters (no pass runs), and a fetch() returns the
\* parameters of the last completed round.
C19_StalledBelowQuorum ==
    [][Starved =>
          /\ round' = round
          /\ global_model' = global_model
          /\ \A p \in Procs : DumpDone(p) => encoded[p] = lastComplete]_vars

\* the orders in which n updates can have been appended
Orders(n) == {f \in [1..n -> 1..n] : \A i, j \in 1..n : f[i] = f[j] => i = j}
Reordered(us, f) == [i \in 1..Len(us) |-> us[f[i]]]

\* C20: the parameters an aggregation pass loads are the ones the same pass
\* would have computed had the pending updates been appended in any other order.
C20_OrderIndependent ==
    \A p \in Procs :
        pc[p] = "a_reset" =>
            \A f \in Orders(Len(client_updates)) :
                FoldAvg(ZeroBlob, Reordered(client_updates, f), total_samples[p])
                    = global_model

\* a pass has loaded the mean of two updates that differ in parameters and in
\* sample count
C20_Witness ==
    \E p \in Procs :
        /\ pc[p] = "a_reset"
        /\ Len(client_updates) = 2
        /\ client_updates[1].weights # client_updates[2].weights
        /\ client_updates[1].samples # client_updates[2].samples
        /\ client_updates[1].samples > 0
        /\ client_updates[2].samples > 0

\* ---- UEStateMachine
\* the message after which the next one is fixed, and that next one
FixedSuccessor ==
    [m \in MESSAGES \ {"ATTACH_COMPLETE", "DATA_TRANSFER_UPLINK",
                        "DATA_TRANSFER_DOWNLINK", "SERVICE_REQUEST",
                        "RRC_CONNECTION_RELEASE"} |->
        CASE m = "RRC_CONNECTION_REQUEST" -> "RRC_CONNECTION_SETUP"
          [] m = "RRC_CONNECTION_SETUP" -> "RRC_CONNECTION_SETUP_COMPLETE"
          [] m = "RRC_CONNECTION_SETUP_COMPLETE" -> "ATTACH_REQUEST"
          [] m = "ATTACH_REQUEST" -> "AUTH_REQUEST"
          [] m = "AUTH_REQUEST" -> "AUTH_RESPONSE"
          [] m = "AUTH_RESPONSE" -> "SEC_MODE_COMMAND"
          [] m = "SEC_MODE_COMMAND" -> "SEC_MODE_COMPLETE"
          [] m = "SEC_MODE_COMPLETE" -> "ATTACH_ACCEPT"
          [] m = "ATTACH_ACCEPT" -> "ATTACH_COMPLETE"
          [] m = "DETACH_REQUEST" -> "DETACH_ACCEPT"
          [] m = "DETACH_ACCEPT" -> "RRC_CONNECTION_REQUEST"]
DataTransfers == {"DATA_TRANSFER_UPLINK", "DATA_TRANSFER_DOWNLINK"}
\* the messages that leave or keep the entity in CONNECTED
ConnectedAfter == {"ATTACH_COMPLETE"} \cup DataTransfers
ConnectedChoices == DataTransfers \cup {"DETACH_REQUEST"}

\* C12: in a run from IDLE the message emitted at step i+1 is the fixed successor
\* of the message emitted at step i, except that after ATTACH_COMPLETE or a
\* data-transfer message the next one is a data-transfer message or DETACH_REQUEST.
C12_FixedSuccessors ==
    \A u \in UEs : \A i \in 1..(Len(returned[u]) - 1) :
        LET a == returned[u][i]
            b == returned[u][i + 1]
        IN IF a \in ConnectedAfter
           THEN b \in ConnectedChoices
           ELSE a \in DOMAIN FixedSuccessor /\ b = FixedSuccessor[a]

\* a run that went through two data transfers, detached and started the next cycle
C12_Witness ==
    \E i, j \in 1..(Len(returned[0]) - 1) :
        /\ returned[0][i] = "DATA_TRANSFER_UPLINK"
        /\ returned[0][i + 1] = "DATA_TRANSFER_DOWNLINK"
        /\ returned[0][j] = "DETACH_ACCEPT"
        /\ returned[0][j + 1] = "RRC_CONNECTION_REQUEST"

\* the closed set of states, in the order of the procedure
StateOrder ==
    <<"IDLE", "RRC_WAIT", "RRC_SETUP", "ATTACH_START", "AUTH_WAIT", "AUTH_RESP",
      "SEC_WAIT", "SEC_COMP", "ATTACH_ACC_WAIT", "ATTACH_COMP", "CONNECTED",
      "DETACH_WAIT">>
\* the message of the one transition out of the i-th state (none for CONNECTED)
MessageOrder ==
    <<"RRC_CONNECTION_REQUEST", "RRC_CONNECTION_SETUP",
      "RRC_CONNECTION_SETUP_COMPLETE", "ATTACH_REQUEST", "AUTH_REQUEST",
      "AUTH_RESPONSE", "SEC_MODE_COMMAND", "SEC_MODE_COMPLETE", "ATTACH_ACCEPT",
      "ATTACH_COMPLETE", None, "DETACH_ACCEPT">>
PlaceOf(s) == CHOOSE i \in 1..Len(StateOrder) : StateOrder[i] = s
Called(u) == returned'[u] # returned[u]
Emitted(u) == returned'[u][Len(returned'[u])]

\* C13: the state starts at IDLE and is always one of the 12 states; a call in a
\* state other than CONNECTED emits that state's one message and moves to the
\* next state of the order IDLE, ..., CONNECTED, and from DETACH_WAIT to IDLE.
C13_ClosedOrderedStates ==
    /\ \A u \in UEs : state[u] = "IDLE"
    /\ [](\A u \in UEs : \E i \in 1..12 : state[u] = StateOrder[i])
    /\ [][\A u \in UEs :
            (Called(u) /\ state[u] # "CONNECTED") =>
                LET i == PlaceOf(state[u])
                IN /\ Emitted(u) = MessageOrder[i]
                   /\ state'[u] = StateOrder[(i % 12) + 1]]_vars

\* the entity is back in IDLE after a detach: every state has been visited
C13_Witness == state[0] = "IDLE" /\ Len(history[0]) >= 12

\* C14: a call in CONNECTED emits a data-transfer message and stays, or emits
\* DETACH_REQUEST and moves to DETACH_WAIT; a call in DETACH_WAIT emits
\* DETACH_ACCEPT and moves to IDLE.
C14_ConnectedAndDetach ==
    [][\A u \in UEs :
         /\ (Called(u) /\ state[u] = "CONNECTED") =>
                \/ Emitted(u) \in DataTransfers /\ state'[u] = "CONNECTED"
                \/ Emitted(u) = "DETACH_REQUEST" /\ state'[u] = "DETACH_WAIT"
         /\ (Called(u) /\ state[u] = "DETACH_WAIT") =>
                Emitted(u) = "DETACH_ACCEPT" /\ state'[u] = "IDLE"]_vars

\* both data transfers and the detach have been emitted from CONNECTED
C14_Witness ==
    /\ state[0] = "IDLE"
    /\ \E i, j, k \in 1..Len(history[0]) :
          /\ history[0][i] = "DATA_TRANSFER_UPLINK"
          /\ history[0][j] = "DATA_TRANSFER_DOWNLINK"
          /\ history[0][k] = "DETACH_REQUEST"

\* C15: every call of transition() returns a message, never None, and appends
\* it to the history: after k calls the history is the sequence of the k
\* returned messages.
C15_HistoryIsReturned ==
    \A u \in UEs :
        /\ \A i \in 1..Len(returned[u]) : returned[u][i] \in MESSAGES
        /\ Len(history[u]) = Len(returned[u])
        /\ history[u] = returned[u]

\* MaxHistory calls have been made, the last ones in a second cycle
C15_Witness ==
    /\ Len(returned[0]) = MaxHistory
    /\ state[0] \notin {"IDLE", "CONNECTED", "DETACH_WAIT"}

\* ---- generate_dataset
BaselineMs == Baseline \div TicksPerMs
\* the timestamp logged before the i-th one
LoggedBefore(i) == IF i = 1 THEN BaselineMs ELSE events[i - 1].ts

ObservablePairs ==
    {<<START, "RRC_CONNECTION_REQUEST">>}
    \cup {<<m, FixedSuccessor[m]>> : m \in DOMAIN FixedSuccessor \ {"DETACH_ACCEPT"}}
    \cup (ConnectedAfter \X ConnectedChoices)
\* the bootstrap has seen every one of them
FullyBootstrapped == ObservablePairs \subseteq valid_transitions

\* C17 (as stated): every full cycle from IDLE back to IDLE is scored valid, so
\* a batch in which every sequence was scored valid, as a batch of full cycles
\* is, scores 1.0.
C17_CyclesScoredValid ==
    /\ (phase = "count" /\ seq \in FullCycles) => seq_valid
    /\ (phase = "done" /\ total_count > 0 /\ valid_seqs = total_count)
          => score = <<1, 1>>

\* C17 (amended): once the bootstrap has observed every pair a cycle can show,
\* every full cycle from IDLE back to IDLE is scored valid, and a batch in which
\* every sequence was scored valid scores 1.0.
C17_CyclesValidWhenBootstrapped ==
    /\ (phase = "count" /\ seq \in FullCycles /\ FullyBootstrapped) => seq_valid
    /\ (phase = "done" /\ total_count > 0 /\ valid_seqs = total_count)
          => score = <<1, 1>>

\* the second sequence of a batch is a full cycle with two data transfers, the
\* first one was valid too, and the bootstrap was complete
C17_Witness ==
    /\ phase = "count"
    /\ seq \in FullCycles
    /\ Len(seq) = 14
    /\ FullyBootstrapped
    /\ scored = 1
    /\ valid_seqs = 1
    /\ seq_valid

\* the pairs <<a, b>> such that the state machine can emit b right after a
EmittablePairs ==
    UNION {{<<o[1], n[1]>> : n \in Step(o[2])} :
           o \in UNION {Step(StateOrder[i]) : i \in 1..Len(StateOrder)}}
BadPairAt(s, i) ==
    /\ <<s[i - 1], s[i]>> \notin EmittablePairs
    /\ ~(s[i - 1] \in DataTransfers /\ s[i] \in DataTransfers)

\* C18: a sequence with a consecutive pair the state machine can never emit,
\* other than a pair of two data-transfer tags, is scored invalid, wherever the
\* pair is.
C18_UnemittablePairInvalid ==
    (phase = "count" /\ \E i \in 2..Len(seq) : BadPairAt(seq, i)) => ~seq_valid

\* ATTACH_ACCEPT followed by RRC_CONNECTION_REQUEST, late in a sequence that is
\* a walk of the state machine up to there, after a complete bootstrap
C18_Witness ==
    /\ phase = "count"
    /\ FullyBootstrapped
    /\ Len(seq) >= 10
    /\ seq[9] = "ATTACH_ACCEPT"
    /\ seq[10] = "RRC_CONNECTION_REQUEST"
    /\ ~seq_valid

\* ------------------------------------------------------------------ C21
\* C21: the score check_semantic_validity returns is the number of sequences it
\* counted valid over the number of sequences supplied: valid_seqs never exceeds
\* the sequences scored so far, the value returned times total_count is
\* valid_seqs, it lies between 0 and 1, and it is 0 when no sequence was supplied.
C21_ScoreIsValidShare ==
    /\ phase \in {"score", "count", "done"} =>
          valid_seqs <= scored /\ scored <= total_count
    /\ phase = "done" =>
          /\ score[2] > 0
          /\ score[1] * total_count = valid_seqs * score[2]
          /\ 0 <= score[1] /\ score[1] <= score[2]
          /\ total_count = 0 => score = RatZero

\* a batch of two sequences, one of them counted valid, has returned 1/2
C21_Witness ==
    phase = "done" /\ total_count = 2 /\ valid_seqs = 1 /\ score = <<1, 2>>

\* ------------------------------------------------------------------ C22
\* C22: every message a branch of transition() can emit is one of the 16 tags of
\* MESSAGES, and so is the Message field of every event generate_dataset has
\* collected and of every row it has written after the header.
C22_MessagesInVocabulary ==
    /\ Cardinality(MESSAGES) = 16
    /\ \A i \in 1..Len(StateOrder) :
           \A o \in Step(StateOrder[i]) : o[1] \in MESSAGES
    /\ \A u \in UEs :
           /\ \E i \in 1..Len(StateOrder) : StateOrder[i] = state[u]
           /\ \A i \in 1..Len(returned[u]) : returned[u][i] \in MESSAGES
    /\ \A i \in 1..Len(events) : events[i].msg \in MESSAGES
    /\ \A i \in 2..Len(rows) : rows[i].msg \in MESSAGES

\* the log has been written with MaxEvents rows, of two machines
C22_Witness ==
    /\ Len(rows) = MaxEvents + 1
    /\ \E i, j \in 2..Len(rows) : rows[i].ue # rows[j].ue

\* ------------------------------------------------------------------ C23
\* C23: numbering the accepted submissions in the order of their appends, the
\* pass that runs while the round counter is k - 1 averages exactly the
\* submissions (k-1)*quorum+1 .. k*quorum, in that order, and whenever no call is
\* in flight round * quorum + len(pending) is the number of accepted submissions.
C23_PassesConsumeInOrder ==
    /\ \A p \in Procs :
           pc[p] \in {"a_avg", "a_load", "a_reset"} =>
               /\ Len(client_updates) = MIN_CLIENTS
               /\ \A j \in 1..Len(client_updates) :
                      client_updates[j].seq = round * MIN_CLIENTS + j
    /\ AllReturned => round * MIN_CLIENTS + Len(client_updates) = nAccepted

\* ------------------------------------------------------------------ C24
\* C24: the round counter starts at 0 and a step that changes it adds exactly 1;
\* that step is the last statement of an aggregation pass whose result has just
\* been loaded as the global parameters. The global parameters are written only
\* by the load of a pass, and whenever no pass is in progress they are the ones
\* loaded by the pass that last incremented the round (the initial ones before
\* the first): parameters and round change in the same passes and nowhere else.
C24_RoundWithParameters ==
    /\ round = 0
    /\ [][/\ round' # round =>
               /\ round' = round + 1
               /\ global_model' = global_model
               /\ \E p \in Procs :
                      pc[p] = "a_round" /\ global_model = avg_weights[p]
          /\ global_model' # global_model =>
               /\ round' = round
               /\ \E p \in Procs : pc[p] = "a_load" /\ pc'[p] \in {"a_load", "a_reset"}
          /\ (\A p \in Procs : pc[p] \notin AggregateSection) =>
               global_model = lastComplete]_vars

\* two passes have completed and the parameters are no longer the initial ones
C24_Witness ==
    /\ round = 2
    /\ AllReturned
    /\ global_model # InitBlob
    /\ \E p \in Procs : status[p] = "AGGREGATED"

\* ------------------------------------------------------------------ C25
\* C25: no step of get_global_weights (taking the lock, serialising a key,
\* returning) changes the global parameters, the round counter or the pending
\* list, and a call that holds the lock always has its next step enabled,
\* whatever the coordinator's state: it serialises on and returns.
C25_FetchChangesNothing ==
    [][\A p \in Procs :
         /\ (pc[p] \in {"g_lock", "g_dump"}
                /\ (pc'[p] # pc[p] \/ idx'[p] # idx[p])) =>
               /\ global_model' = global_model
               /\ round' = round
               /\ client_updates' = client_updates
         /\ pc[p] = "g_dump" =>
               /\ lock = p
               /\ ENABLED (GetDump(p) \/ GetReturn(p))
         /\ (pc[p] = "g_dump" /\ pc'[p] # pc[p]) =>
               /\ pc'[p] = AfterFetch(p)
               /\ lock' = NoProc
               /\ p \in Workers => model'[p] = global_model]_vars

\* a fetch returns while an update is pending and a pass has completed
C25_Witness ==
    \E p \in Procs :
        /\ DumpDone(p)
        /\ client_updates # <<>>
        /\ round >= 1
        /\ encoded[p] = global_model

\* ------------------------------------------------------------------ C26
\* an update sent by a run_client whose model was fetched before the current round
Stale(u) == u.id \in Workers /\ u.base # NoRound /\ u.base < round

\* C26: submit_update appends the update it is given whatever round the sender's
\* model was fetched at, and the pass that follows averages every pending
\* update, a stale one included, with the weight samples / total_samples.
C26_StaleUpdateAveraged ==
    [][\A p \in Procs :
         /\ (pc[p] = "s_append" /\ pc'[p] # pc[p]) =>
               /\ pc'[p] = "s_test"
               /\ Len(client_updates') = Len(client_updates) + 1
               /\ LET u == client_updates'[Len(client_updates')]
                  IN /\ u.id = p
                     /\ u.weights = encoded[p]
                     /\ u.samples = samples[p]
                     /\ u.base = fetched_round[p]
         /\ pc[p] = "a_reset" =>
               /\ \A j \in 1..Len(client_updates) :
                      consumed[client_updates[j].seq] >= 1
               /\ global_model =
                      FoldAvg(ZeroBlob, client_updates, SumSamples(client_updates))
       ]_vars

\* a pass has averaged a worker's update trained from the parameters of an
\* earlier round, with the worker's full sample count
C26_Witness ==
    \E p \in Procs :
        /\ pc[p] = "a_reset"
        /\ round >= 1
        /\ \E j \in 1..Len(client_updates) :
               /\ Stale(client_updates[j])
               /\ client_updates[j].samples = LocalSamples
               /\ total_samples[p] = SumSamples(client_updates)

\* ------------------------------------------------------------------ C27
\* the pending updates of us sent under the client_id c
CountOf(us, c) == Cardinality({j \in 1..Len(us) : us[j].id = c})

\* C27: the append of submit_update keeps every pending update, those of the
\* same client_id included, and adds one more of that client_id; the quorum test
\* counts the entries of the pending list, whoever sent them; and the total a pass
\* divides by is the sum of the sample counts of all entries.
C27_NoDeduplication ==
    [][\A p \in Procs :
         /\ (pc[p] = "s_append" /\ pc'[p] # pc[p]) =>
               /\ \A j \in 1..Len(client_updates) :
                      client_updates'[j] = client_updates[j]
               /\ CountOf(client_updates', p) = CountOf(client_updates, p) + 1
         /\ (pc[p] = "s_test" /\ pc'[p] # pc[p]) =>
               (pc'[p] = "a_sum" <=> Len(client_updates) >= MIN_CLIENTS)
         /\ pc[p] \in {"a_avg", "a_load", "a_reset"} =>
               total_samples[p] = SumSamples(client_updates)
       ]_vars

\* one worker has reached the quorum alone: the pass averages its two updates,
\* each with its sample count
C27_Witness ==
    \E w \in Workers :
        /\ pc[w] = "a_reset"
        /\ Len(client_updates) = MIN_CLIENTS
        /\ CountOf(client_updates, w) = MIN_CLIENTS
        /\ total_samples[w] = MIN_CLIENTS * LocalSamples

\* ------------------------------------------------------------------ C28
\* C28: an iteration of run_client goes fetch, train, submit. A worker enters
\* get_global_weights only from the top of an iteration that has not fetched yet;
\* it trains only on the return of that fetch, with the parameters fetched loaded
\* as its model; it sends submit_update only after training, in an iteration that
\* has fetched, with the trained model and with len(messages), the same positive
\* number in every call.
C28_FetchTrainSubmit ==
    /\ LocalSamples > 0
    /\ [][\A w \in Workers :
            /\ (pc'[w] = "g_lock" /\ pc[w] # "g_lock") =>
                  pc[w] = "w_fetch" /\ fetched_round[w] = NoRound
            /\ (pc'[w] = "w_train" /\ pc[w] # "w_train") =>
                  /\ DumpDone(w)
                  /\ encoded[w] = global_model
                  /\ model'[w] = encoded[w]
                  /\ fetched_round'[w] = round
            /\ (pc'[w] = "w_submit" /\ pc[w] # "w_submit") =>
                  pc[w] = "w_train" /\ fetched_round[w] # NoRound
            /\ (pc'[w] = "s_lock" /\ pc[w] # "s_lock") =>
                  /\ pc[w] = "w_submit"
                  /\ fetched_round[w] # NoRound
                  /\ encoded'[w] = model[w]
                  /\ samples'[w] = LocalSamples
            /\ (pc[w] = "w_status" /\ pc'[w] # pc[w]) =>
                  pc'[w] \in {"w_fetch", "w_eval"} /\ fetched_round'[w] = NoRound
          ]_vars

\* a worker is submitting in a later iteration, after a fetch of the parameters
\* of round 1
C28_Witness ==
    \E w \in Workers :
        /\ pc[w] = "s_append"
        /\ fetched_round[w] = 1
        /\ samples[w] = LocalSamples
        /\ nCalls >= 3

\* ------------------------------------------------------------------ C29
\* the sampling step of w starts only from the end of an iteration, with the
\* round counter then a positive multiple of the period
SamplingOnlyWhenDue(w) ==
    (pc'[w] = "w_eval" /\ pc[w] # "w_eval") =>
        /\ pc[w] = "w_status"
        /\ round_num'[w] > 0
        /\ round_num'[w] % EvalPeriod = 0

\* C29: the sampling step of a worker starts only at the end of an iteration
\* with the worker's round counter a positive multiple of 5, and its step changes
\* neither the round counter nor anything of the coordinator and is followed by
\* the fetch at the top of the loop, also when a statement inside it fails.
C29_SamplingLeavesLoopRunning ==
    [][\A w \in Workers :
         /\ SamplingOnlyWhenDue(w)
         /\ (pc[w] = "w_eval" /\ pc'[w] # pc[w]) =>
               /\ round_num' = round_num
               /\ UNCHANGED coordVars
               /\ pc'[w] = "w_fetch"]_vars

\* ------------------------------------------------------------------ C30
\* the i-th pair of s is in the pair set vt or is a pair of data-transfer tags
PairPasses(s, i, vt) ==
    LET prev == IF i = 1 THEN START ELSE s[i - 1]
    IN \/ <<prev, s[i]>> \in vt
       \/ prev \in DataTransferTags /\ s[i] \in DataTransferTags

\* C30: a sequence is scored valid exactly when every consecutive pair of it,
\* the first one taken with START before the first element, is in the
\* bootstrapped pair set or is a pair of two data-transfer tags; one failing
\* pair, wherever it is, makes the sequence invalid.
C30_ValidIffEveryPairPasses ==
    phase = "count" =>
        (seq_valid <=>
            \A i \in 1..Len(seq) : PairPasses(seq, i, valid_transitions))

\* a sequence scored invalid for a pair in its middle, its first pair and its
\* last pair passing
C30_Witness ==
    /\ phase = "count"
    /\ ~seq_valid
    /\ Len(seq) >= 3
    /\ PairPasses(seq, 1, valid_transitions)
    /\ PairPasses(seq, Len(seq), valid_transitions)
    /\ \E i \in 2..(Len(seq) - 1) : ~PairPasses(seq, i, valid_transitions)

\* ------------------------------------------------------------------ C31
\* the tags some branch of transition() emits
EmittableTags ==
    {o[1] : o \in UNION {Step(StateOrder[i]) : i \in 1..Len(StateOrder)}}
\* the pairs a run from IDLE can show in a row, the sentinel before its first
StartPairs == {<<START, o[1]>> : o \in Step("IDLE")}

\* C31: every pair the bootstrap has put in the pair set is a pair the state
\* machine emits consecutively (or START and the first message of a run); the
\* set never exceeds the pairs of one IDLE-to-IDLE cycle, and once it holds all
\* of them every tag the machine can emit is the prev of some pair, except
\* DETACH_ACCEPT, the tag that ends the cycle.
C31_PairSetOfOneCycle ==
    /\ valid_transitions \subseteq EmittablePairs \cup StartPairs
    /\ valid_transitions \subseteq ObservablePairs
    /\ FullyBootstrapped =>
          /\ \A m \in EmittableTags \ {"DETACH_ACCEPT"} :
                 \E pr \in valid_transitions : pr[1] = m
          /\ \A pr \in valid_transitions : pr[1] # "DETACH_ACCEPT"

\* the bootstrap has ended with every pair of a cycle in the set
C31_Witness ==
    /\ phase = "score"
    /\ valid_transitions = ObservablePairs
    /\ Cardinality(valid_transitions) = 20

\* ------------------------------------------------------------------ C32
\* the messages s[i], s[i+1], ... are what the state machine emits from state st
RECURSIVE WalkFrom(_, _, _)
WalkFrom(st, s, i) ==
    \/ i > Len(s)
    \/ \E o \in Step(st) : o[1] = s[i] /\ WalkFrom(o[2], s, i + 1)
\* s is what a state machine started in IDLE emits, over any number of cycles
IsRun(s) == WalkFrom("IDLE", s, 1)

\* C32: with a fully bootstrapped pair set, every sequence the state machine can
\* emit from IDLE, one that goes on into a further cycle included, is scored
\* valid.
C32_EveryRunScoredValid ==
    (phase = "count" /\ FullyBootstrapped /\ IsRun(seq)) => seq_valid

\* ------------------------------------------------------------------ C33
\* the rounds a run of MaxEvalSubmits submit_update calls can complete
RoundsInReach == 0..((MaxEvalSubmits \div MIN_CLIENTS) - 1)

\* C33: a single worker that keeps looping, with the sample count of its corpus,
\* advances the coordinator's round counter again and again although it is the
\* only caller: from every round value r the submit_update calls left in the run
\* suffice for, a state with round = r + 1 follows.
C33_RoundKeepsAdvancing ==
    \A r \in RoundsInReach : (round = r) ~> (round = r + 1)

\* the worker has completed five rounds by itself and is back at its fetch
C33_Witness ==
    /\ round = 5
    /\ round_num["client_1"] = 5
    /\ pc["client_1"] = "w_fetch"
    /\ \A p \in Procs \ {"client_1"} : pc[p] = "off"

\* ------------------------------------------------------------------ C34
\* every caller is a run_client
OnlyWorkers == \A r \in Raws : pc[r] = "off"
\* no submit_update call is in flight and no status waits to be looked at
StatusesProcessed ==
    \A w \in Workers : pc[w] \notin SubmitSection \cup {"s_lock", "w_status"}
RECURSIVE SumRounds(_)
SumRounds(W) ==
    IF W = {} THEN 0
    ELSE LET w == CHOOSE x \in W : TRUE IN round_num[w] + SumRounds(W \ {w})

\* C34: a submit_update call returns AGGREGATED when it ran the aggregation pass
\* and WAITING otherwise, nothing else; so a worker's round_num never exceeds the
\* coordinator's round, and when all callers are workers and every status
\* returned has been processed the round_num of the workers add up to round.
C34_OneAggregatedPerPass ==
    [][/\ \A p \in Procs :
             (pc[p] \in SubmitSection /\ pc'[p] \notin SubmitSection) =>
                 /\ status'[p] \in {"AGGREGATED", "WAITING"}
                 /\ (status'[p] = "AGGREGATED" <=> pc[p] = "s_ret")
       /\ \A w \in Workers : round_num[w] <= round
       /\ (OnlyWorkers /\ StatusesProcessed) => SumRounds(Workers) = round
      ]_vars

\* ------------------------------------------------------------------ C35
\* C35: the lock is held only by a call that is between its acquisition and its
\* return, every step by which the holder leaves get_global_weights or
\* submit_update frees it, the step of a raising aggregation included; and that
\* step changes neither the global parameters, which are still those of the last
\* completed pass, nor the round counter.
C35_LockReleasedOnEveryExit ==
    [][/\ lock # NoProc => InCritical(lock)
       /\ (\A p \in Procs : ~InCritical(p)) => lock = NoProc
       /\ \A p \in Procs :
             /\ (lock = p /\ pc'[p] \notin FetchSection \cup SubmitSection) =>
                   lock' = NoProc
             /\ (status'[p] = "FAULT" /\ status[p] # "FAULT") =>
                   /\ lock' = NoProc
                   /\ global_model' = global_model
                   /\ global_model = lastComplete
                   /\ round' = round
      ]_vars

\* an aggregation pass has raised and a later fetch holds the lock
C35_Witness ==
    \E p, q \in Procs :
        /\ p # q
        /\ status[p] = "FAULT"
        /\ pc[q] = "g_dump"
        /\ lock = q
        /\ Len(client_updates) >= MIN_CLIENTS

\* ------------------------------------------------------------------ C36
\* the messages of the events of UE u, in the order of the log
MessagesOf(u) ==
    LET own == SelectSeq(events, LAMBDA e : e.ue = u)
    IN [i \in 1..Len(own) |-> own[i].msg]

\* C36: generate_dataset appends one event per iteration, so a finished run has
\* written max_events rows after the header; the messages logged for a UE, in
\* log order, are that UE's history and are what a state machine started in
\* IDLE emits; and an iteration changes the state and the history of no UE but
\* the one it advanced.
C36_LogRefinesMachines ==
    /\ [](/\ Len(events) = iter
          /\ rows # <<>> => rows = <<"header">> \o events /\ Len(events) = MaxEvents
          /\ \A u \in UEs : MessagesOf(u) = history[u] /\ IsRun(history[u]))
    /\ [][\A u \in UEs :
            returned'[u] # returned[u] =>
                \A v \in UEs \ {u} :
                    /\ state'[v] = state[v]
                    /\ history'[v] = history[v]
                    /\ returned'[v] = returned[v]]_vars

\* a log of MaxEvents events has been written, with events of two UEs
C36_Witness ==
    /\ rows # <<>>
    /\ Len(events) = MaxEvents
    /\ \A u \in {0, 1} : Len(history[u]) >= 2 /\ MessagesOf(u) = history[u]

\* ------------------------------------------------------------------ C37
\* the messages s[i], s[i+1], ... are emitted from state st without the machine
\* being back in IDLE before the last of them
RECURSIVE OneCycleFrom(_, _, _)
OneCycleFrom(st, s, i) ==
    \/ i > Len(s)
    \/ \E o \in Step(st) :
          /\ o[1] = s[i]
          /\ o[2] # "IDLE" \/ i = Len(s)
          /\ OneCycleFrom(o[2], s, i + 1)
\* s is a prefix of one run from IDLE back to IDLE
IsCyclePrefix(s) == OneCycleFrom("IDLE", s, 1)

\* C37: with a fully bootstrapped pair set a non-empty sequence is scored valid
\* exactly when it is a prefix of one run of the state machine from IDLE back to
\* IDLE, and every pair the data-transfer relaxation accepts is a pair the state
\* machine emits consecutively.
C37_ExactWithinOneCycle ==
    /\ \A prev \in MESSAGES \cup {START} : \A curr \in MESSAGES :
           Relaxed(prev, curr) => <<prev, curr>> \in EmittablePairs
    /\ (phase = "count" /\ FullyBootstrapped /\ seq # <<>>) =>
           (seq_valid <=> IsCyclePrefix(seq))

\* a proper prefix of a cycle, ending inside the data transfers, is scored valid
\* after a complete bootstrap
C37_Witness ==
    /\ phase = "count"
    /\ FullyBootstrapped
    /\ Len(seq) = 11
    /\ seq[11] \in DataTransferTags
    /\ IsCyclePrefix(seq)
    /\ seq_valid

\* ------------------------------------------------------------------ C38
\* the places in h where a cycle begins: the first, and after each DETACH_ACCEPT
CycleStarts(h) ==
    {j \in 1..Len(h) : j = 1 \/ h[j - 1] = "DETACH_ACCEPT"}

\* C38: a machine enters IDLE only from DETACH_WAIT, which it enters only from
\* CONNECTED, the two last messages being DETACH_REQUEST and DETACH_ACCEPT; every
\* cycle begins with the ten messages of the attach procedure in their order and
\* has at least 12 messages; and a machine that keeps being advanced, its detach
\* branch taken in the end, is in IDLE again and again.
C38_CyclesEndByDetach ==
    /\ [](\A u \in {0} : \A j \in CycleStarts(returned[u]) :
            /\ \A k \in 1..Len(AttachProcedure) :
                   j + k - 1 <= Len(returned[u]) =>
                       returned[u][j + k - 1] = AttachProcedure[k]
            /\ \A i \in j..Len(returned[u]) :
                   (returned[u][i] = "DETACH_ACCEPT" /\ i - j < 11) =>
                       \E m \in (j + 1)..(i - 1) : m \in CycleStarts(returned[u]))
    /\ [][\A u \in {0} :
            /\ (state'[u] = "IDLE" /\ state[u] # "IDLE") =>
                  /\ state[u] = "DETACH_WAIT"
                  /\ returned'[u] # returned[u] =>
                        LET n == Len(returned'[u])
                        IN /\ returned'[u][n] = "DETACH_ACCEPT"
                           /\ returned'[u][n - 1] = "DETACH_REQUEST"
            /\ (state'[u] = "DETACH_WAIT" /\ state[u] # "DETACH_WAIT") =>
                  state[u] = "CONNECTED"]_vars
    /\ \A u \in {0} : []<>(state[u] = "IDLE")

\* the machine is back in IDLE after a cycle with two data transfers
C38_Witness ==
    /\ state[0] = "IDLE"
    /\ Len(returned[0]) = 14
    /\ returned[0][14] = "DETACH_ACCEPT"
    /\ returned[0][13] = "DETACH_REQUEST"

\* ------------------------------------------------------------------ C39
\* C39: an empty sequence is one of the total_count sequences and is scored
\* valid, valid_seqs growing by one for it, whatever the pair set; and a batch of
\* one or more sequences, every one of them empty, scores 1.
C39_EmptySequenceScoredValid ==
    /\ [][(phase = "count" /\ seq = <<>>) =>
            /\ seq_valid
            /\ valid_seqs' = valid_seqs + 1
            /\ scored' = scored + 1
            /\ scored' <= total_count]_vars
    /\ [][(phase = "score" /\ phase' = "done" /\ total_count > 0
                /\ valid_seqs = total_count) =>
               score' = Rat(total_count, total_count)]_vars
    /\ ([](phase = "count" => seq = <<>>)) =>
           [](phase = "done" => valid_seqs = total_count)

\* the second of two sequences is empty and has been scored valid after a first
\* one that was counted valid too
C39_Witness ==
    /\ phase = "count"
    /\ seq = <<>>
    /\ seq_valid
    /\ total_count = MaxBatch
    /\ scored = MaxBatch - 1
    /\ valid_seqs = MaxBatch - 1

====
